---------------------------- MODULE Spec2Model ----------------------------
(***************************************************************************)
(* ExpressionComponent (src/unnamed/part_006, lines 372-670) driven by its *)
(* host TransactionForm (src/unnamed/part_008).                            *)
(*                                                                         *)
(* A raw expression string is a sequence of one-character strings.         *)
(* Offsets are the 0-based offsets of the source: offset c lies between    *)
(* the characters val[c] and val[c+1] of the 1-based TLA+ sequence.        *)
(* Every event handler is one atomic action: React batches the state       *)
(* updates of a handler and re-renders before the next event is handled.   *)
(* isFocused only selects a border colour and is left out.                 *)
(*                                                                         *)
(* The input's selection is a collapsed caret, selectionStart. A key whose *)
(* keydown handler does not call preventDefault takes its default action   *)
(* in the same step: the browser edits the input at the caret and fires    *)
(* the input event, that is handleInputChange. When a handler sets         *)
(* localValue itself, React writes the string into the input and the       *)
(* caret lands at its end; the handler's setTimeout(..., 0) callback is a  *)
(* task of its own and may run after later events.                         *)
(* A handler that returns at its first condition without changing any      *)
(* state is a stuttering step.                                             *)
(*                                                                         *)
(* Four specifications share the variables:                                *)
(*   Spec       the editor under any host: every key, click and caret      *)
(*              move, the transaction fetch; the page, the preview and the *)
(*              submit button stand still                                  *)
(*   SpecHome   Home (src/src/app/page.tsx) opening the form in create or  *)
(*              edit mode, re-targeting and closing it, with the editor in *)
(*              it and the form's category fetch and reset effect          *)
(*   SpecForm   an open TransactionForm: typing, the 300 ms debounce       *)
(*              timer, evaluation requests and their responses in any      *)
(*              order                                                      *)
(*   SpecSubmit an open TransactionForm in create mode: its required       *)
(*              fields, the 50 ms validation timer and the submit button   *)
(* The evaluation backend is outside the repository: a request resolves    *)
(* with the result of its own expression and frequency, or rejects.        *)
(***************************************************************************)
EXTENDS Integers, Sequences, FiniteSets, Bags, TLC

(* ------------------------------ bounds -------------------------------- *)

\* Longest raw string the user extends by typing (a mounted value or a
\* selection may be longer).
MaxLen == 2

\* Most deferred cursor updates (setTimeout 0) pending at once.
MaxPending == 1

\* Most evaluation requests awaiting their response at once.
MaxInFlight == 2

(* --------------------------- program inputs --------------------------- *)

\* The characters the user types: the trigger, an identifier character and
\* an operator.
Alphabet == {"$", "a", "+"}

\* The character class [a-zA-Z0-9-] of chipRegex.
IdChars ==
  {"a","b","c","d","e","f","g","h","i","j","k","l","m",
   "n","o","p","q","r","s","t","u","v","w","x","y","z",
   "A","B","C","D","E","F","G","H","I","J","K","L","M",
   "N","O","P","Q","R","S","T","U","V","W","X","Y","Z",
   "0","1","2","3","4","5","6","7","8","9","-"}

\* excludeTransactionId is optional: NoId stands for undefined.
NoId == <<>>

\* The ids of the transactions the backend lists (transactionControllerFindAll).
Transactions == << <<"a">>, <<"b">>, <<"a", "-", "1">> >>

\* What the fetch may deliver: no transaction, one transaction, the whole
\* list.
FetchResults == {<<>>, <<Transactions[2]>>, Transactions}

\* The host may exclude no transaction or one of them.
ExcludeChoices == {NoId, <<"b">>}

\* The raw string the editor is mounted with (create mode, edit mode).
InitialValues == {<<>>, <<"+", "$", "a">>, <<"$", "a", "$", "b", "+">>}

\* Two of the values of FREQUENCIES; MONTH is the form's default.
Frequencies == {"month", "week"}

\* The expression of each transaction of Home's list, by its id.
ExpressionOf(id) ==
  IF id = <<"a">> THEN <<"a">>
  ELSE IF id = <<"b">> THEN <<"$", "a">>
  ELSE <<"a", "+">>

\* null of expressionEvaluation; a result r is held as <<r>>.
Null == <<>>

\* The ids of the categories the backend lists (categoryControllerFindAll).
Categories == << <<"c">> >>

\* What the category fetch may deliver: no category, the whole list.
CategoryResults == {<<>>, Categories}

VARIABLES
  value,                 \* prop value: the host's expression (watchedExpression)
  options,               \* prop options: availableTransactions
  excludeTransactionId,  \* prop excludeTransactionId
  isLoadingTransactions, \* TransactionForm: the transaction fetch is in flight
  showDropdown,          \* useState(false)
  selectedIndex,         \* useState(0)
  cursorPosition,        \* useState(0)
  localValue,            \* useState(value)
  selectionStart,        \* the input element's caret (collapsed selection)
  pendingTimers,         \* the setTimeout(..., 0) callbacks not yet run
  onChangeCalls,         \* the arguments onChange got in the last handler
  lastEvent,             \* the event the last step handled
  showForm,              \* Home: useState(false)
  editingTransactionId,  \* Home: useState(null), NoId for null
  watchedFrequency,      \* TransactionForm: watch('frequency')
  evaluationTimers,      \* TransactionForm: the pending setTimeout(..., 300)
  inFlight,              \* evaluation requests awaiting their response (a bag)
  expressionEvaluation,  \* TransactionForm: useState(null)
  isEvaluatingExpression,\* TransactionForm: useState(false)
  categories,            \* TransactionForm: useState([]), the category ids
  isLoadingCategories,   \* TransactionForm: the category fetch is in flight
  description,           \* TransactionForm: watch('description')
  categoryId,            \* TransactionForm: watch('categoryId')
  isFormValid,           \* TransactionForm: useState(false)
  validationPending,     \* TransactionForm: a setTimeout(runValidation, 50) is set
  isSubmitting           \* TransactionForm: useState(false)

\* The state of ExpressionComponent and of its input element.
editorVars == <<showDropdown, selectedIndex, cursorPosition, localValue,
                selectionStart, pendingTimers>>

\* The state of Home.
pageVars == <<showForm, editingTransactionId>>

\* The state of TransactionForm's expression preview.
evaluationVars == <<watchedFrequency, evaluationTimers, inFlight,
                    expressionEvaluation, isEvaluatingExpression>>

\* The categories TransactionForm has fetched.
categoryVars == <<categories, isLoadingCategories>>

\* The other required fields of TransactionForm and the state of its submit
\* button.
validationVars == <<description, categoryId, isFormValid, validationPending,
                    isSubmitting>>

vars == <<value, options, excludeTransactionId, isLoadingTransactions,
          showDropdown, selectedIndex, cursorPosition, localValue,
          selectionStart, pendingTimers, onChangeCalls, lastEvent,
          showForm, editingTransactionId, watchedFrequency, evaluationTimers,
          inFlight, expressionEvaluation, isEvaluatingExpression,
          categories, isLoadingCategories, description, categoryId,
          isFormValid, validationPending, isSubmitting>>

(* ------------------------------ helpers ------------------------------- *)

Min(a, b) == IF a < b THEN a ELSE b

Max(a, b) == IF a > b THEN a ELSE b

\* String.prototype.substring(from, to) on 0-based offsets.
Substring(val, from, to) == SubSeq(val, from + 1, to)

\* String.prototype.endsWith('$').
EndsWithDollar(val) == Len(val) > 0 /\ val[Len(val)] = "$"

\* String.prototype.includes('$').
IncludesDollar(val) == \E i \in 1..Len(val) : val[i] = "$"

\* String.prototype.lastIndexOf('$'): 0-based, -1 when absent.
LastIndexOfDollar(val) ==
  IF IncludesDollar(val)
  THEN (CHOOSE i \in 1..Len(val) :
          val[i] = "$" /\ \A j \in (i+1)..Len(val) : val[j] # "$") - 1
  ELSE -1

(* ---------------------------- SegmentParser --------------------------- *)

\* IdRun for a pattern without the "+": one identifier character at most.
IdRun_OneChar(val, i) ==
  IF i < Len(val) /\ val[i + 1] \in IdChars THEN 1 ELSE 0

RECURSIVE IdRun(_, _)
\* The greedy run [a-zA-Z0-9-]+ : how many identifier characters start at
\* 0-based offset i.
IdRun(val, i) ==
  IF i < Len(val) /\ val[i + 1] \in IdChars THEN 1 + IdRun(val, i + 1) ELSE 0

RECURSIVE RegexExec_AnyDollar(_, _)
\* RegexExec for a pattern with "*" in place of "+": any "$" matches.
RegexExec_AnyDollar(val, from) ==
  IF from >= Len(val) THEN -1
  ELSE IF val[from + 1] = "$" THEN from
  ELSE RegexExec_AnyDollar(val, from + 1)

RECURSIVE RegexExec(_, _)
\* chipRegex.exec(val) with the regex's lastIndex at from: the 0-based index of
\* the leftmost match of \$([a-zA-Z0-9-]+) at or after from, -1 for null.
RegexExec(val, from) ==
  IF from >= Len(val) THEN -1
  ELSE IF val[from + 1] = "$" /\ IdRun(val, from + 1) > 0 THEN from
  ELSE RegexExec(val, from + 1)

TextSegment(content) == [type |-> "text", content |-> content]

\* ChipSegment keeping match[1] as its content.
ChipSegment_IdOnly(content) ==
  [type |-> "chip", content |-> Tail(content), transactionId |-> Tail(content)]

\* The chip pushed for match[0] = content: transactionId is match[1].
ChipSegment(content) ==
  [type |-> "chip", content |-> content, transactionId |-> Tail(content)]

RECURSIVE ParseLoop(_, _, _)
\* The while loop of parseValue and the "remaining text" branch after it.
ParseLoop(val, lastIndex, segments) ==
  LET index == RegexExec(val, lastIndex)
  IN IF index = -1
     THEN IF lastIndex < Len(val)
          THEN Append(segments, TextSegment(Substring(val, lastIndex, Len(val))))
          ELSE segments
     ELSE LET matchLen == 1 + IdRun(val, index + 1)
              withText == IF index > lastIndex
                          THEN Append(segments,
                                      TextSegment(Substring(val, lastIndex, index)))
                          ELSE segments
          IN ParseLoop(val, index + matchLen,
                       Append(withText,
                              ChipSegment(Substring(val, index, index + matchLen))))

parseValue(val) == ParseLoop(val, 0, <<>>)

RECURSIVE JoinWithComma(_)
\* Array.prototype.join() with its default separator.
JoinWithComma(segments) ==
  IF segments = <<>> THEN <<>>
  ELSE IF Len(segments) = 1 THEN Head(segments).content
  ELSE Head(segments).content \o <<",">> \o JoinWithComma(Tail(segments))

\* segmentsToString with join() instead of join('').
segmentsToString_DefaultJoin(segments) == JoinWithComma(segments)

RECURSIVE segmentsToString(_)
\* segments.map(segment => segment.content).join('')
segmentsToString(segments) ==
  IF segments = <<>> THEN <<>>
  ELSE Head(segments).content \o segmentsToString(Tail(segments))

\* segments.filter((_, index) => index !== i), i 1-based here.
WithoutSegment(segments, i) ==
  SubSeq(segments, 1, i - 1) \o SubSeq(segments, i + 1, Len(segments))

RECURSIVE SegmentStart(_, _)
\* currentPos when the deletion loop reaches segment i (1-based).
SegmentStart(segments, i) ==
  IF i = 1 THEN 0
  ELSE SegmentStart(segments, i - 1) + Len(segments[i - 1].content)

SegmentEnd(segments, i) == SegmentStart(segments, i) + Len(segments[i].content)

(* ------------------------------- render ------------------------------- *)

RECURSIVE FilterOut(_, _)
\* options.filter(option => option.id !== id)
FilterOut(opts, id) ==
  IF opts = <<>> THEN <<>>
  ELSE IF Head(opts) # id THEN <<Head(opts)>> \o FilterOut(Tail(opts), id)
  ELSE FilterOut(Tail(opts), id)

\* FilteredOptionsOf rendering the host's list as it is.
FilteredOptionsOf_Unfiltered(opts, exclude) == opts

\* filteredOptions of a render with the given props.
FilteredOptionsOf(opts, exclude) ==
  IF exclude # NoId THEN FilterOut(opts, exclude) ELSE opts

filteredOptions == FilteredOptionsOf(options, excludeTransactionId)

\* getTransactionById with the comparison on the id dropped: the first
\* option is found for any id.
getTransactionById_AnyOption(opts, id) ==
  IF opts = <<>> THEN <<>> ELSE <<Head(opts)>>

\* options.find(option => option.id === id): <<option>>, or <<>> for
\* undefined.
getTransactionById(opts, id) ==
  LET found == { k \in 1..Len(opts) : opts[k] = id }
  IN IF found = {} THEN <<>>
     ELSE <<opts[CHOOSE k \in found : \A j \in found : k <= j]>>

\* What the callback of segments.map returns for one segment: a Chip of the
\* transaction found, or a span of the segment's content.
RenderSegment(segment, opts) ==
  IF segment.type = "chip"
     /\ getTransactionById(opts, segment.transactionId) # <<>>
  THEN [element |-> "Chip",
        transaction |-> getTransactionById(opts, segment.transactionId)[1],
        value |-> segment.transactionId]
  ELSE [element |-> "span", children |-> segment.content]

\* The visual overlay: segments = parseValue(value), each rendered in turn.
RenderedSegments ==
  [k \in 1..Len(parseValue(value)) |-> RenderSegment(parseValue(value)[k], options)]

\* What the dropdown block renders.
DropdownContent ==
  IF ~showDropdown THEN "none"
  ELSE IF Len(filteredOptions) = 0 THEN "No transactions available"
  ELSE "options"

(* ------------------------------- events ------------------------------- *)

\* What the last step handled: the DOM event (type, key, target), whether the
\* handler called preventDefault, and whether the browser's default action
\* changed the input and so fired handleInputChange in the same step.
Event(type, key, target, prevented, input) ==
  [type |-> type, key |-> key, target |-> target,
   defaultPrevented |-> prevented, input |-> input]

Init ==
  /\ value \in InitialValues
  /\ options = <<>>
  /\ excludeTransactionId \in ExcludeChoices
  /\ isLoadingTransactions = TRUE
  /\ showDropdown = FALSE
  /\ selectedIndex = 0
  /\ cursorPosition = 0
  /\ localValue = value
  /\ selectionStart = Len(value)
  /\ pendingTimers = <<>>
  /\ onChangeCalls = <<>>
  /\ lastEvent = Event("mount", "", NoId, FALSE, FALSE)
  /\ showForm = TRUE
  /\ editingTransactionId = NoId
  /\ watchedFrequency = "month"
  /\ evaluationTimers = {}
  /\ inFlight = EmptyBag
  /\ expressionEvaluation = Null
  /\ isEvaluatingExpression = FALSE
  /\ categories = <<>>
  /\ isLoadingCategories = TRUE
  /\ description = <<>>
  /\ categoryId = <<>>
  /\ isFormValid = FALSE
  /\ validationPending = TRUE
  /\ isSubmitting = FALSE

\* The props the host controls besides value.
HostProps == <<options, excludeTransactionId, isLoadingTransactions>>

(* ------------------------- ExpressionComponent ------------------------ *)

\* onChange whose host does not store the string.
onChange_NotStored(newValue) ==
  /\ onChangeCalls' = <<newValue>>
  /\ UNCHANGED value

\* onChange(newValue): TransactionForm.handleExpressionChange stores the string
\* as the form's expression, which comes back as the prop value.
onChange(newValue) ==
  /\ onChangeCalls' = <<newValue>>
  /\ value' = newValue

\* DropdownAfterChange testing includes('$') where the source tests
\* endsWith('$').
DropdownAfterChange_OpensOnIncludes(newValue, shown) ==
  IF IncludesDollar(newValue) /\ ~shown THEN TRUE
  ELSE IF ~IncludesDollar(newValue) /\ shown THEN FALSE
  ELSE shown

\* The dropdown flag after handleInputChange's if / else if.
DropdownAfterChange(newValue, shown) ==
  IF EndsWithDollar(newValue) /\ ~shown THEN TRUE
  ELSE IF ~IncludesDollar(newValue) /\ shown THEN FALSE
  ELSE shown

\* handleInputChange with e.target.value = newValue and
\* e.target.selectionStart = caret.
handleInputChange(newValue, caret) ==
  LET cursorPos == caret  \* selectionStart || 0
  IN /\ localValue' = newValue
     /\ onChange(newValue)
     /\ cursorPosition' = cursorPos
     /\ showDropdown' = DropdownAfterChange(newValue, showDropdown)
     /\ selectedIndex' = IF EndsWithDollar(newValue) /\ ~showDropdown
                         THEN 0 ELSE selectedIndex

\* ChipSelectValue replacing the "$" by the bare id.
ChipSelectValue_NoDollar(currentValue, lastDollarIndex, id) ==
  Substring(currentValue, 0, lastDollarIndex) \o id
    \o Substring(currentValue, lastDollarIndex + 1, Len(currentValue))

\* The string handleChipSelect builds: the last "$" replaced by "$" + id.
ChipSelectValue(currentValue, lastDollarIndex, id) ==
  Substring(currentValue, 0, lastDollarIndex) \o <<"$">> \o id
    \o Substring(currentValue, lastDollarIndex + 1, Len(currentValue))

\* handleChipSelect without its onChange(newValue) call.
handleChipSelect_NoNotify(id) ==
  LET currentValue == localValue
      lastDollarIndex == LastIndexOfDollar(currentValue)
  IN /\ IF lastDollarIndex # -1
        THEN LET newValue == ChipSelectValue(currentValue, lastDollarIndex, id)
             IN /\ Len(pendingTimers) < MaxPending
                /\ localValue' = newValue
                /\ selectionStart' = Len(newValue)
                /\ pendingTimers' =
                     Append(pendingTimers, lastDollarIndex + Len(id) + 1)
                /\ onChangeCalls' = <<>>
                /\ UNCHANGED value
        ELSE /\ onChangeCalls' = <<>>
             /\ UNCHANGED <<localValue, value, selectionStart, pendingTimers>>
     /\ showDropdown' = FALSE

\* handleChipSelect(transaction) with transaction.id = id. React writes the new
\* value into the input, which leaves the caret at its end until the deferred
\* setSelectionRange runs.
handleChipSelect(id) ==
  LET currentValue == localValue
      lastDollarIndex == LastIndexOfDollar(currentValue)
  IN /\ IF lastDollarIndex # -1
        THEN LET newValue == ChipSelectValue(currentValue, lastDollarIndex, id)
             IN /\ Len(pendingTimers) < MaxPending
                /\ localValue' = newValue
                /\ onChange(newValue)
                /\ selectionStart' = Len(newValue)
                /\ pendingTimers' =
                     Append(pendingTimers, lastDollarIndex + Len(id) + 1)
        ELSE /\ onChangeCalls' = <<>>
             /\ UNCHANGED <<localValue, value, selectionStart, pendingTimers>>
     /\ showDropdown' = FALSE

\* ArrowDownIndex wrapping around to the first option.
ArrowDownIndex_Wraps(prev, n) == IF n = 0 THEN 0 ELSE (prev + 1) % n

\* setSelectedIndex(prev => Math.min(prev + 1, filteredOptions.length - 1))
ArrowDownIndex(prev, n) == Min(prev + 1, n - 1)

\* setSelectedIndex(prev => Math.max(prev - 1, 0))
ArrowUpIndex(prev) == Max(prev - 1, 0)

\* filteredOptions[selectedIndex] is defined.
HasOption(opts, index) == index >= 0 /\ index < Len(opts)

\* handleKeyDown for the keys of its switch; any other key falls through.
handleKeyDown(key) ==
  IF showDropdown /\ key = "ArrowDown"
  THEN /\ selectedIndex' = ArrowDownIndex(selectedIndex, Len(filteredOptions))
       /\ onChangeCalls' = <<>>
       /\ lastEvent' = Event("keydown", key, NoId, TRUE, FALSE)
       /\ UNCHANGED <<value, localValue, showDropdown, cursorPosition,
                      selectionStart, pendingTimers>>
  ELSE IF showDropdown /\ key = "ArrowUp"
  THEN /\ selectedIndex' = ArrowUpIndex(selectedIndex)
       /\ onChangeCalls' = <<>>
       /\ lastEvent' = Event("keydown", key, NoId, TRUE, FALSE)
       /\ UNCHANGED <<value, localValue, showDropdown, cursorPosition,
                      selectionStart, pendingTimers>>
  ELSE IF showDropdown /\ key = "Enter"
  THEN IF HasOption(filteredOptions, selectedIndex)
       THEN /\ handleChipSelect(filteredOptions[selectedIndex + 1])
            /\ lastEvent' = Event("keydown", key,
                                  filteredOptions[selectedIndex + 1], TRUE, FALSE)
            /\ UNCHANGED <<selectedIndex, cursorPosition>>
       ELSE /\ onChangeCalls' = <<>>
            /\ lastEvent' = Event("keydown", key, NoId, TRUE, FALSE)
            /\ UNCHANGED <<value, localValue, showDropdown, selectedIndex,
                           cursorPosition, selectionStart, pendingTimers>>
  ELSE IF showDropdown /\ key = "Escape"
  THEN /\ showDropdown' = FALSE
       /\ onChangeCalls' = <<>>
       /\ lastEvent' = Event("keydown", key, NoId, TRUE, FALSE)
       /\ UNCHANGED <<value, localValue, selectedIndex, cursorPosition,
                      selectionStart, pendingTimers>>
  ELSE /\ onChangeCalls' = <<>>
       /\ lastEvent' = Event("keydown", key, NoId, FALSE, FALSE)
       /\ UNCHANGED <<value, localValue, showDropdown, selectedIndex,
                      cursorPosition, selectionStart, pendingTimers>>

\* DeletedChipIndex hitting a chip only with the caret at its end.
DeletedChipIndex_EndOnly(segments, cursorPos) ==
  LET hits == { i \in 1..Len(segments) :
                  /\ cursorPos = SegmentEnd(segments, i)
                  /\ segments[i].type = "chip" }
  IN IF hits = {} THEN 0 ELSE CHOOSE i \in hits : \A j \in hits : i <= j

\* The deletion loop of handleKeyDownWithChipDeletion: the first segment i
\* (1-based) that is a chip with currentPos <= cursorPos <= segmentEnd, 0 when
\* the loop ends without returning.
DeletedChipIndex(segments, cursorPos) ==
  LET hits == { i \in 1..Len(segments) :
                  /\ cursorPos >= SegmentStart(segments, i)
                  /\ cursorPos <= SegmentEnd(segments, i)
                  /\ segments[i].type = "chip" }
  IN IF hits = {} THEN 0 ELSE CHOOSE i \in hits : \A j \in hits : i <= j

\* The browser's default action of Backspace with a collapsed caret.
DefaultBackspace(val, caret) ==
  Substring(val, 0, caret - 1) \o Substring(val, caret, Len(val))

\* The browser's default action of a character key with a collapsed caret.
DefaultInsert(val, caret, ch) ==
  Substring(val, 0, caret) \o <<ch>> \o Substring(val, caret, Len(val))

\* keydown of Backspace: handleKeyDownWithChipDeletion, then, unless the
\* handler prevented it, the browser's deletion and the input event it fires.
KeyDownBackspace ==
  LET cursorPos == selectionStart  \* selectionStart || 0
      segments == parseValue(localValue)
      i == DeletedChipIndex(segments, cursorPos)
  IN IF i # 0
     THEN LET newValue == segmentsToString(WithoutSegment(segments, i))
          IN /\ Len(pendingTimers) < MaxPending
             /\ localValue' = newValue
             /\ onChange(newValue)
             /\ selectionStart' = Len(newValue)
             /\ pendingTimers' =
                  Append(pendingTimers, SegmentStart(segments, i))
             /\ lastEvent' = Event("keydown", "Backspace", NoId, TRUE, FALSE)
             /\ UNCHANGED <<showDropdown, selectedIndex, cursorPosition>>
             /\ UNCHANGED HostProps
     ELSE IF cursorPos > 0
     THEN /\ handleInputChange(DefaultBackspace(localValue, cursorPos),
                               cursorPos - 1)
          /\ selectionStart' = cursorPos - 1
          /\ lastEvent' = Event("keydown", "Backspace", NoId, FALSE, TRUE)
          /\ UNCHANGED pendingTimers
          /\ UNCHANGED HostProps
     ELSE /\ handleKeyDown("Backspace")
          /\ UNCHANGED HostProps

\* keydown of a character key: no case of either handler applies, the browser
\* inserts the character at the caret and fires the input event.
KeyDownChar(ch) ==
  /\ Len(localValue) < MaxLen
  /\ handleInputChange(DefaultInsert(localValue, selectionStart, ch),
                       selectionStart + 1)
  /\ selectionStart' = selectionStart + 1
  /\ lastEvent' = Event("keydown", "Char", NoId, FALSE, TRUE)
  /\ UNCHANGED pendingTimers
  /\ UNCHANGED HostProps

\* keydown of a key of handleKeyDown's switch. While the dropdown is closed
\* the handler changes nothing: a stuttering step.
KeyDownNav(key) ==
  /\ showDropdown
  /\ handleKeyDown(key)
  /\ UNCHANGED HostProps

\* click on the dropdown button of transaction id.
ClickOption(id) ==
  /\ showDropdown
  /\ \E k \in 1..Len(filteredOptions) : filteredOptions[k] = id
  /\ handleChipSelect(id)
  /\ lastEvent' = Event("click", "", id, FALSE, FALSE)
  /\ UNCHANGED <<selectedIndex, cursorPosition>>
  /\ UNCHANGED HostProps

\* ClickedOutside with || between the two contains() tests.
ClickedOutside_Or(shown, target) ==
  shown /\ (target # "dropdown" \/ target # "input")

\* The condition of handleClickOutside: dropdownRef.current is set while the
\* dropdown is rendered, inputRef.current while the component is mounted.
ClickedOutside(shown, target) ==
  shown /\ target # "dropdown" /\ target # "input"

\* mousedown anywhere in the document. While the dropdown is closed
\* dropdownRef.current is null and the handler changes nothing: a stuttering
\* step.
MouseDown(target) ==
  /\ showDropdown
  /\ showDropdown' = IF ClickedOutside(showDropdown, target)
                     THEN FALSE ELSE showDropdown
  /\ onChangeCalls' = <<>>
  /\ lastEvent' = Event("mousedown", "", target, FALSE, FALSE)
  /\ UNCHANGED <<value, localValue, selectedIndex, cursorPosition,
                 selectionStart, pendingTimers>>
  /\ UNCHANGED HostProps

\* The user moves the caret (arrow keys, Home, End, setSelectionRange).
MoveCaret(pos) ==
  /\ pos # selectionStart
  /\ selectionStart' = pos
  /\ onChangeCalls' = <<>>
  /\ lastEvent' = Event("select", "", NoId, FALSE, FALSE)
  /\ UNCHANGED <<value, localValue, showDropdown, selectedIndex,
                 cursorPosition, pendingTimers>>
  /\ UNCHANGED HostProps

\* A deferred callback runs: inputRef.current.setSelectionRange(pos, pos),
\* which the input clamps to its value's length.
RunTimeout ==
  /\ pendingTimers # <<>>
  /\ selectionStart' = Min(Head(pendingTimers), Len(localValue))
  /\ pendingTimers' = Tail(pendingTimers)
  /\ onChangeCalls' = <<>>
  /\ lastEvent' = Event("timeout", "", NoId, FALSE, FALSE)
  /\ UNCHANGED <<value, localValue, showDropdown, selectedIndex, cursorPosition>>
  /\ UNCHANGED HostProps

(* --------------------------- TransactionForm -------------------------- *)

\* fetchTransactions resolves with the list result.
FetchTransactions(result) ==
  /\ isLoadingTransactions
  /\ options' = result
  /\ isLoadingTransactions' = FALSE
  /\ onChangeCalls' = <<>>
  /\ lastEvent' = Event("fetch", "", NoId, FALSE, FALSE)
  /\ UNCHANGED <<value, excludeTransactionId, showDropdown, selectedIndex,
                 cursorPosition, localValue, selectionStart, pendingTimers>>

\* FetchTransactionsFails without the finally block.
FetchTransactionsFails_StaysLoading ==
  /\ isLoadingTransactions
  /\ options' = <<>>
  /\ onChangeCalls' = <<>>
  /\ lastEvent' = Event("fetch", "rejected", NoId, FALSE, FALSE)
  /\ UNCHANGED <<value, excludeTransactionId, isLoadingTransactions,
                 showDropdown, selectedIndex, cursorPosition, localValue,
                 selectionStart, pendingTimers>>

\* fetchTransactions rejects: catch, then finally.
FetchTransactionsFails ==
  /\ isLoadingTransactions
  /\ options' = <<>>
  /\ isLoadingTransactions' = FALSE
  /\ onChangeCalls' = <<>>
  /\ lastEvent' = Event("fetch", "rejected", NoId, FALSE, FALSE)
  /\ UNCHANGED <<value, excludeTransactionId, showDropdown, selectedIndex,
                 cursorPosition, localValue, selectionStart, pendingTimers>>

RECURSIVE TrimStart(_)
\* String.prototype.trim(), the leading blanks.
TrimStart(val) ==
  IF val # <<>> /\ Head(val) = " " THEN TrimStart(Tail(val)) ELSE val

RECURSIVE Trim(_)
\* String.prototype.trim()
Trim(val) ==
  IF val # <<>> /\ val[Len(val)] = " "
  THEN Trim(SubSeq(val, 1, Len(val) - 1))
  ELSE TrimStart(val)

\* trimmedExpression === '-' || ... === '+' || '*' || '/' || '.'
IsLoneOperator(trimmedExpression) ==
  trimmedExpression \in {<<"-">>, <<"+">>, <<"*">>, <<"/">>, <<".">>}

\* /[+\-*/.=]$/.test(trimmedExpression)
EndsWithOperator(trimmedExpression) ==
  /\ trimmedExpression # <<>>
  /\ trimmedExpression[Len(trimmedExpression)] \in {"+", "-", "*", "/", ".", "="}

\* The three early returns of evaluateExpressionValue.
IsIncomplete(expression) ==
  \/ Trim(expression) = <<>>
  \/ IsLoneOperator(Trim(expression))
  \/ EndsWithOperator(Trim(expression))

\* The argument of transactionControllerEvaluateExpression.
EvaluationRequest(expression, frequency) ==
  [expression |-> expression, frequency |-> frequency]

\* The backend's ExpressionResult for a request: whatever it computes, it is
\* the amount of that expression at that frequency.
ExpressionResult(request) ==
  [expression |-> request.expression, frequency |-> request.frequency]

\* The effect that keeps every timer it ever set.
EvaluationTimersAfterEffect_NoCleanup(timers, expression, frequency) ==
  IF expression # <<>> /\ frequency # ""
  THEN timers \cup {EvaluationRequest(expression, frequency)}
  ELSE timers

\* The timers after the debounce effect re-runs: the cleanup of its last run
\* clears the timer that run set, then a new timer is set when both fields
\* are truthy.
EvaluationTimersAfterEffect(timers, expression, frequency) ==
  IF expression # <<>> /\ frequency # ""
  THEN {EvaluationRequest(expression, frequency)}
  ELSE {}

\* useEffect(..., [watchedExpression, watchedFrequency, ...]) after a render:
\* it re-runs when one of the two has changed.
EvaluationEffect ==
  IF <<value', watchedFrequency'>> = <<value, watchedFrequency>>
  THEN UNCHANGED <<evaluationTimers, expressionEvaluation>>
  ELSE /\ evaluationTimers' =
            EvaluationTimersAfterEffect(evaluationTimers, value', watchedFrequency')
       /\ expressionEvaluation' =
            IF value' # <<>> /\ watchedFrequency' # ""
            THEN expressionEvaluation ELSE Null

\* What TransactionForm does after a handler of the editor has run.
FormRerender ==
  /\ UNCHANGED pageVars
  /\ UNCHANGED categoryVars
  /\ UNCHANGED <<watchedFrequency, inFlight, isEvaluatingExpression>>
  /\ EvaluationEffect

\* The user picks another frequency in the select.
ChangeFrequency(frequency) ==
  /\ showForm
  /\ frequency # watchedFrequency
  /\ watchedFrequency' = frequency
  /\ onChangeCalls' = <<>>
  /\ lastEvent' = Event("change", "frequency", NoId, FALSE, FALSE)
  /\ UNCHANGED <<value, inFlight, isEvaluatingExpression>>
  /\ UNCHANGED <<editorVars, pageVars, categoryVars, HostProps>>
  /\ EvaluationEffect

\* evaluateExpressionValue(expression, frequency) up to its await.
evaluateExpressionValue(expression, frequency) ==
  IF IsIncomplete(expression)
  THEN /\ expressionEvaluation' = Null
       /\ UNCHANGED <<inFlight, isEvaluatingExpression>>
  ELSE /\ BagCardinality(inFlight) < MaxInFlight
       /\ isEvaluatingExpression' = TRUE
       /\ inFlight' = inFlight (+) SetToBag({EvaluationRequest(expression, frequency)})
       /\ UNCHANGED expressionEvaluation

\* The 300 ms timer fires.
EvaluationTimerFires(timer) ==
  /\ timer \in evaluationTimers
  /\ evaluationTimers' = evaluationTimers \ {timer}
  /\ evaluateExpressionValue(timer.expression, timer.frequency)
  /\ onChangeCalls' = <<>>
  /\ lastEvent' = Event("evaluate", "", NoId, FALSE, FALSE)
  /\ UNCHANGED <<value, watchedFrequency>>
  /\ UNCHANGED <<editorVars, pageVars, categoryVars, HostProps>>

\* The request resolves: setExpressionEvaluation(result), then finally.
EvaluationResolves(request) ==
  /\ BagIn(request, inFlight)
  /\ inFlight' = inFlight (-) SetToBag({request})
  /\ expressionEvaluation' = <<ExpressionResult(request)>>
  /\ isEvaluatingExpression' = FALSE
  /\ onChangeCalls' = <<>>
  /\ lastEvent' = Event("resolved", "", NoId, FALSE, FALSE)
  /\ UNCHANGED <<value, watchedFrequency, evaluationTimers>>
  /\ UNCHANGED <<editorVars, pageVars, categoryVars, HostProps>>

\* EvaluationRejects whose catch only logs the error.
EvaluationRejects_KeepsResult(request) ==
  /\ BagIn(request, inFlight)
  /\ inFlight' = inFlight (-) SetToBag({request})
  /\ isEvaluatingExpression' = FALSE
  /\ onChangeCalls' = <<>>
  /\ lastEvent' = Event("rejected", "", NoId, FALSE, FALSE)
  /\ UNCHANGED <<value, watchedFrequency, evaluationTimers, expressionEvaluation>>
  /\ UNCHANGED <<editorVars, pageVars, categoryVars, HostProps>>

\* The request rejects: catch, then finally.
EvaluationRejects(request) ==
  /\ BagIn(request, inFlight)
  /\ inFlight' = inFlight (-) SetToBag({request})
  /\ expressionEvaluation' = Null
  /\ isEvaluatingExpression' = FALSE
  /\ onChangeCalls' = <<>>
  /\ lastEvent' = Event("rejected", "", NoId, FALSE, FALSE)
  /\ UNCHANGED <<value, watchedFrequency, evaluationTimers>>
  /\ UNCHANGED <<editorVars, pageVars, categoryVars, HostProps>>

\* What the Amount Preview block renders.
AmountPreview ==
  IF Trim(value) = <<>> THEN "Enter a value to see preview"
  ELSE IF isEvaluatingExpression THEN "Evaluating expression..."
  ELSE IF expressionEvaluation # Null THEN "amount"
  ELSE "Expression needs to be completed"

(* -------------------------------- Home -------------------------------- *)

\* The prop currentTransactionId of the TransactionForm Home renders: the JSX
\* passes onSubmit, onCancel, initialData and isLoading, so it is undefined.
currentTransactionId == NoId

\* TransactionForm and its ExpressionComponent mount with
\* initialData.expression = expression: the useState initial values, the
\* default frequency, the transaction fetch started, the first run of the
\* debounce effect.
MountTransactionForm(expression) ==
  /\ value' = expression
  /\ options' = <<>>
  /\ excludeTransactionId' = currentTransactionId
  /\ isLoadingTransactions' = TRUE
  /\ showDropdown' = FALSE
  /\ selectedIndex' = 0
  /\ cursorPosition' = 0
  /\ localValue' = expression
  /\ selectionStart' = Len(expression)
  /\ pendingTimers' = <<>>
  /\ watchedFrequency' = "month"
  /\ evaluationTimers' = EvaluationTimersAfterEffect({}, expression, "month")
  /\ inFlight' = EmptyBag
  /\ expressionEvaluation' = Null
  /\ isEvaluatingExpression' = FALSE
  /\ categories' = <<>>
  /\ isLoadingCategories' = TRUE

\* reset({expression, frequency}) of the reset effect, then the editor's sync
\* effect and the debounce effect.
ResetTransactionForm(expression) ==
  /\ value' = expression
  /\ watchedFrequency' = "month"
  /\ localValue' = expression
  /\ selectionStart' = IF expression = localValue
                       THEN selectionStart ELSE Len(expression)
  /\ UNCHANGED <<showDropdown, selectedIndex, cursorPosition, pendingTimers>>
  /\ UNCHANGED <<inFlight, isEvaluatingExpression>>
  /\ UNCHANGED HostProps
  /\ EvaluationEffect

\* The reset effect, useEffect(..., [initialData, categories, reset]), with
\* initialData.expression = expression ("" in create mode) and categories =
\* loaded: it resets the form only if (categories.length > 0).
ResetEffect(loaded, expression) ==
  IF Len(loaded) > 0
  THEN ResetTransactionForm(expression)
  ELSE /\ UNCHANGED <<value, editorVars, evaluationVars>>
       /\ UNCHANGED HostProps

\* The form is unmounted: the effect cleanups run, and what is still pending
\* finds no component to update.
UnmountTransactionForm ==
  /\ value' = <<>>
  /\ options' = <<>>
  /\ excludeTransactionId' = NoId
  /\ isLoadingTransactions' = FALSE
  /\ showDropdown' = FALSE
  /\ selectedIndex' = 0
  /\ cursorPosition' = 0
  /\ localValue' = <<>>
  /\ selectionStart' = 0
  /\ pendingTimers' = <<>>
  /\ watchedFrequency' = "month"
  /\ evaluationTimers' = {}
  /\ inFlight' = EmptyBag
  /\ expressionEvaluation' = Null
  /\ isEvaluatingExpression' = FALSE
  /\ categories' = <<>>
  /\ isLoadingCategories' = FALSE

\* initialData.expression of the form Home renders: the expression of the
\* transaction being edited, undefined (hence "") in create mode.
InitialExpression(id) == IF id = NoId THEN <<>> ELSE ExpressionOf(id)

\* categoryControllerFindAll of the mounted form settles with a list
\* (possibly empty): setCategories(result), then the reset effect.
FetchCategories(result) ==
  /\ showForm
  /\ isLoadingCategories
  /\ categories' = result
  /\ isLoadingCategories' = FALSE
  /\ ResetEffect(result, InitialExpression(editingTransactionId))
  /\ onChangeCalls' = <<>>
  /\ lastEvent' = Event("fetch", "categories", NoId, FALSE, FALSE)
  /\ UNCHANGED pageVars

\* categoryControllerFindAll rejects: setCategoriesError, categories stays [].
FetchCategoriesFails ==
  /\ showForm
  /\ isLoadingCategories
  /\ isLoadingCategories' = FALSE
  /\ onChangeCalls' = <<>>
  /\ lastEvent' = Event("fetch", "categories rejected", NoId, FALSE, FALSE)
  /\ UNCHANGED <<value, categories, editorVars, evaluationVars, pageVars>>
  /\ UNCHANGED HostProps

\* handleEdit(transaction) with transaction.id = id: the form is mounted, or
\* the mounted form gets a new initialData.
handleEdit(id) ==
  /\ editingTransactionId' = id
  /\ showForm' = TRUE
  /\ IF showForm
     THEN /\ ResetEffect(categories, ExpressionOf(id))
          /\ UNCHANGED categoryVars
     ELSE MountTransactionForm(ExpressionOf(id))
  /\ onChangeCalls' = <<>>
  /\ lastEvent' = Event("edit", "", id, FALSE, FALSE)

\* handleCreateNew. With the form already open in create mode no state
\* changes: a stuttering step.
handleCreateNew ==
  /\ ~showForm \/ editingTransactionId # NoId
  /\ editingTransactionId' = NoId
  /\ showForm' = TRUE
  /\ IF showForm
     THEN /\ ResetEffect(categories, <<>>)
          /\ UNCHANGED categoryVars
     ELSE MountTransactionForm(<<>>)
  /\ onChangeCalls' = <<>>
  /\ lastEvent' = Event("create", "", NoId, FALSE, FALSE)

\* handleCancel, the form's Cancel button.
handleCancel ==
  /\ showForm
  /\ showForm' = FALSE
  /\ editingTransactionId' = NoId
  /\ UnmountTransactionForm
  /\ onChangeCalls' = <<>>
  /\ lastEvent' = Event("cancel", "", NoId, FALSE, FALSE)

\* Home before the user opens the form.
InitHome ==
  /\ showForm = FALSE
  /\ editingTransactionId = NoId
  /\ value = <<>>
  /\ options = <<>>
  /\ excludeTransactionId = NoId
  /\ isLoadingTransactions = FALSE
  /\ showDropdown = FALSE
  /\ selectedIndex = 0
  /\ cursorPosition = 0
  /\ localValue = <<>>
  /\ selectionStart = 0
  /\ pendingTimers = <<>>
  /\ onChangeCalls = <<>>
  /\ lastEvent = Event("load", "", NoId, FALSE, FALSE)
  /\ watchedFrequency = "month"
  /\ evaluationTimers = {}
  /\ inFlight = EmptyBag
  /\ expressionEvaluation = Null
  /\ isEvaluatingExpression = FALSE
  /\ categories = <<>>
  /\ isLoadingCategories = FALSE
  /\ description = <<>>
  /\ categoryId = <<>>
  /\ isFormValid = FALSE
  /\ validationPending = FALSE
  /\ isSubmitting = FALSE

\* The submit button and the fields it depends on are left aside.
ValidationAside == UNCHANGED validationVars

\* The editor under a host whose page and expression preview are left aside.
HostAside ==
  /\ UNCHANGED pageVars
  /\ UNCHANGED evaluationVars
  /\ UNCHANGED categoryVars
  /\ UNCHANGED validationVars

Next ==
  \/ (\E ch \in Alphabet : KeyDownChar(ch)) /\ HostAside
  \/ KeyDownBackspace /\ HostAside
  \/ (\E key \in {"ArrowDown", "ArrowUp", "Enter", "Escape"} : KeyDownNav(key))
       /\ HostAside
  \/ (\E id \in {Transactions[k] : k \in 1..Len(Transactions)} : ClickOption(id))
       /\ HostAside
  \/ (\E target \in {"input", "dropdown", "outside"} : MouseDown(target))
       /\ HostAside
  \/ (\E pos \in 0..Len(localValue) : MoveCaret(pos)) /\ HostAside
  \/ RunTimeout /\ HostAside
  \/ (\E result \in FetchResults : FetchTransactions(result)) /\ HostAside
  \/ FetchTransactionsFails /\ HostAside

Spec == Init /\ [][Next]_vars

\* The keys typed while the page or the preview is watched: the trigger and
\* an operator.
FormKeys == {"$", "+"}

\* Home opening, re-targeting and closing the form, and the editor in it.
NextHome ==
  \/ (\E id \in {Transactions[k] : k \in 1..Len(Transactions)} : handleEdit(id))
       /\ ValidationAside
  \/ handleCreateNew /\ ValidationAside
  \/ handleCancel /\ ValidationAside
  \/ (\E result \in CategoryResults : FetchCategories(result)) /\ ValidationAside
  \/ FetchCategoriesFails /\ ValidationAside
  \/ showForm /\ (\E ch \in FormKeys : KeyDownChar(ch)) /\ FormRerender
       /\ ValidationAside
  \/ showForm /\ KeyDownBackspace /\ FormRerender /\ ValidationAside
  \/ showForm /\ (\E id \in {Transactions[k] : k \in 1..Len(Transactions)} :
                    ClickOption(id))
       /\ FormRerender /\ ValidationAside
  \/ showForm /\ RunTimeout /\ FormRerender /\ ValidationAside
  \/ showForm /\ (\E result \in FetchResults : FetchTransactions(result))
       /\ FormRerender /\ ValidationAside
  \/ showForm /\ FetchTransactionsFails /\ FormRerender /\ ValidationAside

SpecHome == InitHome /\ [][NextHome]_vars

\* A TransactionForm open in create mode whose transaction fetch has failed
\* and whose categories are loaded.
InitForm ==
  /\ showForm = TRUE
  /\ editingTransactionId = NoId
  /\ value = <<>>
  /\ options = <<>>
  /\ excludeTransactionId = currentTransactionId
  /\ isLoadingTransactions = FALSE
  /\ showDropdown = FALSE
  /\ selectedIndex = 0
  /\ cursorPosition = 0
  /\ localValue = <<>>
  /\ selectionStart = 0
  /\ pendingTimers = <<>>
  /\ onChangeCalls = <<>>
  /\ lastEvent = Event("mount", "", NoId, FALSE, FALSE)
  /\ watchedFrequency = "month"
  /\ evaluationTimers = {}
  /\ inFlight = EmptyBag
  /\ expressionEvaluation = Null
  /\ isEvaluatingExpression = FALSE
  /\ categories = Categories
  /\ isLoadingCategories = FALSE
  /\ description = <<>>
  /\ categoryId = <<>>
  /\ isFormValid = FALSE
  /\ validationPending = FALSE
  /\ isSubmitting = FALSE

\* The editor typing into the form, and the form's debounced preview.
NextForm ==
  \/ (\E ch \in FormKeys : KeyDownChar(ch)) /\ FormRerender /\ ValidationAside
  \/ KeyDownBackspace /\ FormRerender /\ ValidationAside
  \/ (\E frequency \in Frequencies : ChangeFrequency(frequency))
       /\ ValidationAside
  \/ (\E timer \in evaluationTimers : EvaluationTimerFires(timer))
       /\ ValidationAside
  \/ (\E request \in BagToSet(inFlight) : EvaluationResolves(request))
       /\ ValidationAside
  \/ (\E request \in BagToSet(inFlight) : EvaluationRejects(request))
       /\ ValidationAside

SpecForm == InitForm /\ [][NextForm]_vars

\* What the user may type as the description: nothing, a blank, a word.
Descriptions == {<<>>, <<" ">>, <<"d">>}

\* validateTransactionForm(data).
validateTransactionForm(data) ==
  LET errorMessages ==
        (IF data.description = <<>> \/ Len(Trim(data.description)) = 0
         THEN <<"Description is invalid">> ELSE <<>>)
        \o (IF data.expression = <<>> \/ Len(Trim(data.expression)) = 0
            THEN <<"Expression is invalid">> ELSE <<>>)
        \o (IF data.categoryId = <<>> \/ Len(Trim(data.categoryId)) = 0
            THEN <<"Category is invalid">> ELSE <<>>)
        \o (IF data.frequency = "" THEN <<"Frequency is invalid">> ELSE <<>>)
  IN [isValid |-> Len(errorMessages) = 0, errorMessages |-> errorMessages]

\* validateForm(): the form's current values, read through watch, validated.
validateForm ==
  validateTransactionForm([description |-> description, expression |-> value,
                           categoryId |-> categoryId,
                           frequency |-> watchedFrequency]).isValid

\* disabled of the submit button.
SubmitDisabled == ~isFormValid \/ isSubmitting

\* The validation effect after a render: validateForm is a new function at
\* every render (simpleValidation, one of its dependencies, is), so the
\* cleanup clears the 50 ms timer and a new one is set.
ValidationEffect == validationPending' = TRUE

\* What TransactionForm's submit button sees of a handler that changes
\* neither the other fields nor the button's state: a render.
ValidationRerender ==
  /\ UNCHANGED <<description, categoryId, isFormValid, isSubmitting>>
  /\ ValidationEffect

\* The 50 ms timer fires: runValidation. A changed isFormValid renders the
\* form again, and the effect sets the next timer.
runValidation ==
  /\ showForm
  /\ validationPending
  /\ isFormValid' = validateForm
  /\ validationPending' = (validateForm # isFormValid)
  /\ onChangeCalls' = <<>>
  /\ lastEvent' = Event("validate", "", NoId, FALSE, FALSE)
  /\ UNCHANGED <<description, categoryId, isSubmitting, value>>
  /\ UNCHANGED <<editorVars, pageVars, categoryVars, evaluationVars, HostProps>>

\* The user edits the description input.
ChangeDescription(text) ==
  /\ showForm
  /\ text # description
  /\ description' = text
  /\ ValidationEffect
  /\ onChangeCalls' = <<>>
  /\ lastEvent' = Event("change", "description", NoId, FALSE, FALSE)
  /\ UNCHANGED <<categoryId, isFormValid, isSubmitting, value>>
  /\ UNCHANGED <<editorVars, pageVars, categoryVars, evaluationVars, HostProps>>

\* The user picks an option of the category select: "Select a category" or
\* one of the loaded categories; the select is disabled while they load.
ChangeCategory(id) ==
  /\ showForm
  /\ ~isLoadingCategories
  /\ id = <<>> \/ \E k \in 1..Len(categories) : categories[k] = id
  /\ id # categoryId
  /\ categoryId' = id
  /\ ValidationEffect
  /\ onChangeCalls' = <<>>
  /\ lastEvent' = Event("change", "categoryId", NoId, FALSE, FALSE)
  /\ UNCHANGED <<description, isFormValid, isSubmitting, value>>
  /\ UNCHANGED <<editorVars, pageVars, categoryVars, evaluationVars, HostProps>>

\* What the setCategories of FetchCategories does to the other fields and to
\* the submit button in create mode: reset() empties them, and the initial
\* validation effect calls setIsFormValid(false); both only if
\* (categories.length > 0).
CategoriesEffect ==
  /\ IF Len(categories') > 0
     THEN /\ description' = <<>>
          /\ categoryId' = <<>>
          /\ isFormValid' = FALSE
     ELSE UNCHANGED <<description, categoryId, isFormValid>>
  /\ UNCHANGED isSubmitting
  /\ ValidationEffect

\* A click on the enabled submit button: handleSubmit checks the required
\* rules of the registered fields and then calls handleFormSubmit, which
\* runs up to its await.
handleFormSubmit ==
  /\ showForm
  /\ ~SubmitDisabled
  /\ isSubmitting' = (description # <<>> /\ value # <<>> /\ categoryId # <<>>
                      /\ watchedFrequency # "")
  /\ ValidationEffect
  /\ onChangeCalls' = <<>>
  /\ lastEvent' = Event("submit", "", NoId, FALSE, FALSE)
  /\ UNCHANGED <<description, categoryId, isFormValid, value>>
  /\ UNCHANGED <<editorVars, pageVars, categoryVars, evaluationVars, HostProps>>

\* onSubmit settles (resolved or rejected): finally setIsSubmitting(false).
SubmitSettles ==
  /\ showForm
  /\ isSubmitting
  /\ isSubmitting' = FALSE
  /\ ValidationEffect
  /\ onChangeCalls' = <<>>
  /\ lastEvent' = Event("submitted", "", NoId, FALSE, FALSE)
  /\ UNCHANGED <<description, categoryId, isFormValid, value>>
  /\ UNCHANGED <<editorVars, pageVars, categoryVars, evaluationVars, HostProps>>

\* A TransactionForm just mounted in create mode: the categories are being
\* fetched, the first validation timer is set.
InitSubmit ==
  /\ showForm = TRUE
  /\ editingTransactionId = NoId
  /\ value = <<>>
  /\ options = <<>>
  /\ excludeTransactionId = currentTransactionId
  /\ isLoadingTransactions = FALSE
  /\ showDropdown = FALSE
  /\ selectedIndex = 0
  /\ cursorPosition = 0
  /\ localValue = <<>>
  /\ selectionStart = 0
  /\ pendingTimers = <<>>
  /\ onChangeCalls = <<>>
  /\ lastEvent = Event("mount", "", NoId, FALSE, FALSE)
  /\ watchedFrequency = "month"
  /\ evaluationTimers = {}
  /\ inFlight = EmptyBag
  /\ expressionEvaluation = Null
  /\ isEvaluatingExpression = FALSE
  /\ categories = <<>>
  /\ isLoadingCategories = TRUE
  /\ description = <<>>
  /\ categoryId = <<>>
  /\ isFormValid = FALSE
  /\ validationPending = TRUE
  /\ isSubmitting = FALSE

\* The fields of the form, its debounced validation and its submit button.
NextSubmit ==
  \/ (\E ch \in FormKeys : KeyDownChar(ch)) /\ FormRerender /\ ValidationRerender
  \/ KeyDownBackspace /\ FormRerender /\ ValidationRerender
  \/ (\E frequency \in Frequencies : ChangeFrequency(frequency))
       /\ ValidationRerender
  \/ \E text \in Descriptions : ChangeDescription(text)
  \/ \E id \in {Categories[k] : k \in 1..Len(Categories)} \cup {<<>>} :
       ChangeCategory(id)
  \/ (\E result \in CategoryResults : FetchCategories(result)) /\ CategoriesEffect
  \/ FetchCategoriesFails /\ ValidationRerender
  \/ runValidation
  \/ handleFormSubmit
  \/ SubmitSettles

SpecSubmit == InitSubmit /\ [][NextSubmit]_vars

(* ----------------------------- properties ----------------------------- *)

\* A Reference segment occupies [start, end) of val: a "$", then a maximal
\* non-empty run of identifier characters. Stated on the string alone.
IsReferenceSpan(val, start, end) ==
  /\ 0 <= start
  /\ start + 1 < end
  /\ end <= Len(val)
  /\ val[start + 1] = "$"
  /\ \A k \in (start + 2)..end : val[k] \in IdChars
  /\ end < Len(val) => val[end + 1] \notin IdChars

\* val with [start, end) cut out.
CutOut(val, start, end) ==
  SubSeq(val, 1, start) \o SubSeq(val, end + 1, Len(val))

\* C1: a Backspace keydown with the caret inside or at the end of a Reference
\* segment [start, end) (start < c <= end) removes exactly that segment from
\* the raw string in one step and passes exactly that string to onChange.
C1_AtomicReferenceDeletion ==
  [][ \A start \in 0..Len(localValue), end \in 0..Len(localValue) :
        ( /\ lastEvent'.type = "keydown"
          /\ lastEvent'.key = "Backspace"
          /\ IsReferenceSpan(localValue, start, end)
          /\ start < selectionStart
          /\ selectionStart <= end )
        => /\ localValue' = CutOut(localValue, start, end)
           /\ onChangeCalls' = <<CutOut(localValue, start, end)>> ]_vars

\* C1 witness: "+$a" with the caret on the token has become "+" by one
\* intercepted Backspace that told the host so.
C1_Witness ==
  /\ lastEvent = Event("keydown", "Backspace", NoId, TRUE, FALSE)
  /\ localValue = <<"+">>
  /\ onChangeCalls = << <<"+">> >>

\* C2: with the dropdown open and the raw string ending in "$", Enter on the
\* highlighted option or a click on an option appends that option's id after
\* the "$", calls onChange exactly once with the result and closes the
\* dropdown.
C2_SelectionInsertion ==
  [][ ( /\ showDropdown
        /\ EndsWithDollar(localValue)
        /\ \/ lastEvent'.type = "click"
           \/ /\ lastEvent'.type = "keydown"
              /\ lastEvent'.key = "Enter"
              /\ selectedIndex >= 0
              /\ selectedIndex < Len(filteredOptions) )
      => /\ lastEvent'.type = "keydown"
            => lastEvent'.target = filteredOptions[selectedIndex + 1]
         /\ \E k \in 1..Len(filteredOptions) :
              lastEvent'.target = filteredOptions[k]
         /\ localValue' = localValue \o lastEvent'.target
         /\ onChangeCalls' = <<localValue \o lastEvent'.target>>
         /\ ~showDropdown' ]_vars

\* C2 witness: "+$" and Enter on the first option, a, gave "+$a" and a closed
\* dropdown.
C2_Witness ==
  /\ lastEvent = Event("keydown", "Enter", <<"a">>, TRUE, FALSE)
  /\ localValue = <<"+", "$", "a">>
  /\ onChangeCalls = << <<"+", "$", "a">> >>
  /\ ~showDropdown

\* segmentsToString(parseValue(x)) = x
RoundTrips(x) == segmentsToString(parseValue(x)) = x

\* C3: every raw string the editor holds round-trips through parseValue and
\* segmentsToString, and so does every string handed to onChange.
C3_RoundTrip ==
  /\ RoundTrips(localValue)
  /\ \A k \in 1..Len(onChangeCalls) : RoundTrips(onChangeCalls[k])

\* C3 witness: "$a-1+", a chip followed by text, was handed to onChange (the
\* "$" of "$+" completed to "$a-1").
C3_Witness ==
  /\ localValue = <<"$", "a", "-", "1", "+">>
  /\ onChangeCalls = <<localValue>>
  /\ Len(parseValue(localValue)) = 2

\* val has an unterminated trigger: a "$" followed only by identifier
\* characters up to the end of the string.
HasUnterminatedTrigger(val) ==
  \E i \in 1..Len(val) :
    val[i] = "$" /\ \A j \in (i + 1)..Len(val) : val[j] \in IdChars

\* C4: after any edit (typed change, single-character deletion, atomic
\* reference deletion) whose resulting raw string has no unterminated "$"
\* trigger, the dropdown is closed.
C4_TriggerLossClosesDropdown ==
  [][ ( /\ lastEvent'.type = "keydown"
        /\ lastEvent'.key \in {"Char", "Backspace"}
        /\ localValue' # localValue
        /\ ~HasUnterminatedTrigger(localValue') )
      => ~showDropdown' ]_vars

\* C5: from a closed dropdown, an input change opens it exactly when the new
\* raw string ends with "$", and then the highlighted index is 0.
C5_TriggerOpensDropdown ==
  [][ ( lastEvent'.input /\ ~showDropdown )
      => /\ showDropdown' <=> EndsWithDollar(localValue')
         /\ showDropdown' => selectedIndex' = 0 ]_vars

\* C5 witness: the "$" typed behind "+" opened the dropdown on its first
\* option.
C5_Witness ==
  /\ lastEvent = Event("keydown", "Char", NoId, FALSE, TRUE)
  /\ localValue = <<"+", "$">>
  /\ cursorPosition = 2
  /\ showDropdown
  /\ selectedIndex = 0

\* C6: in every reachable state the highlighted index i satisfies i >= 0, and
\* i <= optionCount - 1 whenever optionCount >= 1.
C6_HighlightedIndexInRange ==
  /\ selectedIndex >= 0
  /\ Len(filteredOptions) >= 1 => selectedIndex <= Len(filteredOptions) - 1

\* C7: with the dropdown open on n >= 1 options and highlighted index i,
\* ArrowDown sets the index to min(i + 1, n - 1) and ArrowUp to max(i - 1, 0).
C7_ClampedNavigation ==
  [][ ( /\ showDropdown
        /\ Len(filteredOptions) >= 1
        /\ lastEvent'.type = "keydown" )
      => /\ lastEvent'.key = "ArrowDown"
            => selectedIndex' = IF selectedIndex + 1 < Len(filteredOptions) - 1
                                THEN selectedIndex + 1
                                ELSE Len(filteredOptions) - 1
         /\ lastEvent'.key = "ArrowUp"
            => selectedIndex' = IF selectedIndex - 1 > 0
                                THEN selectedIndex - 1
                                ELSE 0 ]_vars

\* C7 witness: ArrowDown has brought the highlight to the last of 3 options.
C7_Witness ==
  /\ lastEvent = Event("keydown", "ArrowDown", NoId, TRUE, FALSE)
  /\ showDropdown
  /\ Len(filteredOptions) = 3
  /\ selectedIndex = 2

\* C8: while the dropdown is open, Escape, a mousedown outside both the input
\* and the dropdown, and a click on an option each close it in that step; a
\* mousedown inside the input or the dropdown leaves it open.
C8_SuggestingToIdle ==
  [][ showDropdown
      => /\ (lastEvent'.type = "keydown" /\ lastEvent'.key = "Escape")
            => ~showDropdown'
         /\ (lastEvent'.type = "mousedown" /\ lastEvent'.target = "outside")
            => ~showDropdown'
         /\ lastEvent'.type = "click" => ~showDropdown'
         /\ ( /\ lastEvent'.type = "mousedown"
              /\ lastEvent'.target \in {"input", "dropdown"} )
            => showDropdown' ]_vars

\* C8 witness: a mousedown outside has closed the dropdown.
C8_Witness ==
  /\ lastEvent = Event("mousedown", "", "outside", FALSE, FALSE)
  /\ ~showDropdown

\* C9: a handler that changes the raw string calls onChange exactly once, with
\* the new raw string; a handler that calls onChange leaves localValue equal
\* to the string it passed; the host's copy equals localValue after every
\* handler.
C9_SynchronousChangeNotification ==
  [][ lastEvent'.type \in {"keydown", "click", "mousedown"}
      => /\ localValue' # localValue => onChangeCalls' = <<localValue'>>
         /\ onChangeCalls' # <<>> => onChangeCalls' = <<localValue'>>
         /\ value' = localValue' ]_vars

\* C9 witness: a click on an option changed the raw string and the host was
\* told the new string.
C9_Witness ==
  /\ lastEvent.type = "click"
  /\ onChangeCalls = <<localValue>>
  /\ value = localValue
  /\ EndsWithDollar(localValue) = FALSE

\* C10: a Backspace with the caret at c > 0 behind a character of a Text
\* segment is not intercepted and deletes that one character; no Reference
\* segment is removed.
C10_TextDeletionIsSingleCharacter ==
  [][ ( /\ lastEvent'.type = "keydown"
        /\ lastEvent'.key = "Backspace"
        /\ selectionStart > 0
        /\ ~\E start \in 0..Len(localValue), end \in 0..Len(localValue) :
              /\ IsReferenceSpan(localValue, start, end)
              /\ start < selectionStart
              /\ selectionStart <= end )
      => /\ ~lastEvent'.defaultPrevented
         /\ localValue' = CutOut(localValue, selectionStart - 1, selectionStart)
     ]_vars

\* The host's options, in their order, without the entity whose id is exclude.
OptionsWithout(opts, exclude) == SelectSeq(opts, LAMBDA o : o # exclude)

\* C11: while the dropdown is shown, the options presented are the host's
\* options in the same order minus the entity whose id is
\* excludeTransactionId; a selection (Enter on an option, or a click) writes
\* the id of one of the presented options behind the last "$", and that id is
\* never excludeTransactionId.
C11_ExclusionFilter ==
  [][ /\ showDropdown'
         => filteredOptions' = OptionsWithout(options', excludeTransactionId')
      /\ ( \/ lastEvent'.type = "click"
           \/ /\ lastEvent'.type = "keydown"
              /\ lastEvent'.key = "Enter"
              /\ localValue' # localValue )
         => /\ lastEvent'.target # excludeTransactionId
            /\ \E k \in 1..Len(options) : options[k] = lastEvent'.target
            /\ localValue' # localValue
               => \E i \in 1..Len(localValue) :
                    /\ localValue[i] = "$"
                    /\ localValue' = SubSeq(localValue, 1, i)
                                       \o lastEvent'.target
                                       \o SubSeq(localValue, i + 1, Len(localValue))
    ]_vars

\* C11 witness: the host lists a, b, a-1 and excludes b; Enter on the second
\* presented option has inserted a-1, the host's third option.
C11_Witness ==
  /\ lastEvent = Event("keydown", "Enter", <<"a", "-", "1">>, TRUE, FALSE)
  /\ excludeTransactionId = <<"b">>
  /\ options = Transactions
  /\ selectedIndex = 1
  /\ localValue = <<"$", "a", "-", "1">>

\* C12: whenever the form is open in edit mode for transaction T, the
\* editor's excludeTransactionId is T's id, and T is not among the options an
\* open dropdown presents.
C12_NoSelfReferenceWhenEditing ==
  (showForm /\ editingTransactionId # NoId)
    => /\ excludeTransactionId = editingTransactionId
       /\ showDropdown
          => \A k \in 1..Len(filteredOptions) :
               filteredOptions[k] # editingTransactionId

\* C13: at most one evaluation timer is pending; a change of the expression
\* or of the frequency leaves none of the timers that were pending before it;
\* and every evaluation request that is sent carries the expression and the
\* frequency current at that moment, never a superseded pair.
C13_DebounceCancellation ==
  [][ /\ Cardinality(evaluationTimers') <= 1
      /\ <<value', watchedFrequency'>> # <<value, watchedFrequency>>
         => evaluationTimers' \cap evaluationTimers = {}
      /\ \A r \in BagToSet(inFlight') :
           CopiesIn(r, inFlight') > CopiesIn(r, inFlight)
           => r = EvaluationRequest(value, watchedFrequency) ]_vars

\* C13 witness: "$" was typed, the frequency changed to week before any timer
\* fired, and the one request sent is for "$" at week.
C13_Witness ==
  /\ lastEvent.type = "evaluate"
  /\ value = <<"$">>
  /\ watchedFrequency = "week"
  /\ inFlight = SetToBag({EvaluationRequest(<<"$">>, "week")})
  /\ evaluationTimers = {}
  /\ expressionEvaluation = Null

\* No evaluation timer is pending and no evaluation request is in flight.
PreviewSettled == evaluationTimers = {} /\ BagToSet(inFlight) = {}

\* C14: once no timer is pending and no request is in flight, a stored
\* expressionEvaluation is the result for the current expression and
\* frequency, never the result of a superseded pair.
C14_LastWriteWinsPreview ==
  (PreviewSettled /\ expressionEvaluation # Null)
    => expressionEvaluation =
         <<ExpressionResult(EvaluationRequest(value, watchedFrequency))>>

\* The trimmed expression is a lone operator or ends with one of + - * / . =
IsLoneOrTrailingOperator(expression) ==
  IsLoneOperator(Trim(expression)) \/ EndsWithOperator(Trim(expression))

\* C16: no evaluation request is sent for an expression that is a lone
\* operator or ends with an operator; once the preview has settled on such an
\* expression, expressionEvaluation is null and the hint 'Expression needs to
\* be completed' is what the preview shows; the preview's own steps leave the
\* raw string alone.
C16_IncompleteExpressionSuppression ==
  [][ /\ \A r \in BagToSet(inFlight') :
           CopiesIn(r, inFlight') > CopiesIn(r, inFlight)
           => ~IsLoneOrTrailingOperator(r.expression)
      /\ (IsLoneOrTrailingOperator(value') /\ PreviewSettled')
         => /\ expressionEvaluation' = Null
            /\ AmountPreview' = "Expression needs to be completed"
      /\ lastEvent'.type \in {"evaluate", "resolved", "rejected"}
         => value' = value /\ localValue' = localValue ]_vars

\* C15: a rejected evaluation leaves expressionEvaluation null and
\* isEvaluatingExpression false, and changes neither the form's expression
\* nor the editor's raw string, dropdown flag and highlighted index; a
\* resolved evaluation changes neither the expression nor the raw string.
C15_EvaluationFailureIsolation ==
  [][ /\ lastEvent'.type = "rejected"
         => /\ expressionEvaluation' = Null
            /\ isEvaluatingExpression' = FALSE
            /\ UNCHANGED <<value, localValue, showDropdown, selectedIndex>>
      /\ lastEvent'.type = "resolved"
         => UNCHANGED <<value, localValue>> ]_vars

\* C15 witness: the request for "$" was rejected while the dropdown the "$"
\* opened is still shown.
C15_Witness ==
  /\ lastEvent.type = "rejected"
  /\ localValue = <<"$">>
  /\ value = <<"$">>
  /\ showDropdown
  /\ expressionEvaluation = Null
  /\ ~isEvaluatingExpression

\* C17: a failed transaction fetch leaves the options empty and the loading
\* flag cleared; with no option to present, an input change whose result ends
\* with "$" opens the dropdown, which shows 'No transactions available'; and
\* ArrowUp, ArrowDown and Enter on that dropdown change neither the raw
\* string nor the host's copy and do not call onChange.
C17_EmptyOptionListTolerated ==
  [][ /\ (lastEvent'.type = "fetch" /\ lastEvent'.key = "rejected")
         => options' = <<>> /\ ~isLoadingTransactions'
      /\ ( /\ Len(filteredOptions') = 0
           /\ ~showDropdown
           /\ lastEvent'.input
           /\ EndsWithDollar(localValue') )
         => /\ showDropdown'
            /\ DropdownContent' = "No transactions available"
      /\ ( /\ showDropdown
           /\ Len(filteredOptions) = 0
           /\ lastEvent'.type = "keydown"
           /\ lastEvent'.key \in {"ArrowUp", "ArrowDown", "Enter"} )
         => /\ localValue' = localValue
            /\ value' = value
            /\ onChangeCalls' = <<>> ]_vars

\* C17 witness: the fetch failed, "$" opened the dropdown on no option, and
\* Enter left the raw string "$" as it was.
C17_Witness ==
  /\ lastEvent = Event("keydown", "Enter", NoId, TRUE, FALSE)
  /\ options = <<>>
  /\ ~isLoadingTransactions
  /\ localValue = <<"$">>
  /\ DropdownContent = "No transactions available"
  /\ onChangeCalls = <<>>

\* The number of non-overlapping left-to-right matches of "$" followed by one
\* or more identifier characters in x, counted on the string alone: "$" is no
\* identifier character, so a match starts at exactly every "$" that an
\* identifier character follows.
MatchCount(x) ==
  Cardinality({ i \in 1..Len(x) :
                  x[i] = "$" /\ i < Len(x) /\ x[i + 1] \in IdChars })

\* The number of segments of type 'chip'.
ChipCount(segments) ==
  Cardinality({ k \in 1..Len(segments) : segments[k].type = "chip" })

\* C18: the number of chip segments of parseValue(x) is the number of
\* non-overlapping left-to-right matches of the reference pattern in x, for
\* every raw string x the editor holds; the empty string parses to the empty
\* segment sequence.
C18_ChipCount ==
  /\ ChipCount(parseValue(localValue)) = MatchCount(localValue)
  /\ parseValue(<<>>) = <<>>

\* C18 witness: "$$a" holds two "$" and one match; it parses to the text "$"
\* and one chip.
C18_Witness ==
  /\ localValue = <<"$", "$", "a">>
  /\ MatchCount(localValue) = 1
  /\ ChipCount(parseValue(localValue)) = 1
  /\ Len(parseValue(localValue)) = 2

\* The segment of parseValue(x) that holds the character at 1-based
\* position i of x.
SegmentAt(segments, i) ==
  CHOOSE k \in 1..Len(segments) :
    SegmentStart(segments, k) < i /\ i <= SegmentEnd(segments, k)

\* C19: in parseValue(x) every chip's content is "$" followed by its
\* transactionId, which is non-empty, made of identifier characters only and
\* maximal (no identifier character follows the chip in x); a "$" that no
\* identifier character follows lies in a text segment; no text segment is
\* empty and no two text segments are adjacent; and "$a$b" parses to the two
\* chips $a and $b.
C19_LongestMatchScanning ==
  LET x == localValue
      segments == parseValue(x)
  IN /\ \A k \in 1..Len(segments) :
          segments[k].type = "chip"
          => /\ segments[k].content = <<"$">> \o segments[k].transactionId
             /\ Len(segments[k].transactionId) > 0
             /\ \A j \in 1..Len(segments[k].transactionId) :
                  segments[k].transactionId[j] \in IdChars
             /\ SegmentEnd(segments, k) < Len(x)
                => x[SegmentEnd(segments, k) + 1] \notin IdChars
             /\ SubSeq(x, SegmentStart(segments, k) + 1, SegmentEnd(segments, k))
                  = segments[k].content
     /\ \A i \in 1..Len(x) :
          (x[i] = "$" /\ (i = Len(x) \/ x[i + 1] \notin IdChars))
          => /\ \E k \in 1..Len(segments) :
                  SegmentStart(segments, k) < i /\ i <= SegmentEnd(segments, k)
             /\ segments[SegmentAt(segments, i)].type = "text"
     /\ \A k \in 1..Len(segments) :
          segments[k].type = "text" => segments[k].content # <<>>
     /\ \A k \in 1..(Len(segments) - 1) :
          ~(segments[k].type = "text" /\ segments[k + 1].type = "text")
     /\ parseValue(<<"$", "a", "$", "b">>) =
          << [type |-> "chip", content |-> <<"$", "a">>, transactionId |-> <<"a">>],
             [type |-> "chip", content |-> <<"$", "b">>, transactionId |-> <<"b">>] >>

\* C19 witness: the editor holds "$$a-1": the first "$" stays text, the chip
\* $a-1 takes all three identifier characters.
C19_Witness ==
  /\ localValue = <<"$", "$", "a", "-", "1">>
  /\ parseValue(localValue) =
       << [type |-> "text", content |-> <<"$">>],
          [type |-> "chip", content |-> <<"$", "a", "-", "1">>,
           transactionId |-> <<"a", "-", "1">>] >>

\* C20: parsing the serialisation of parseValue(x) gives parseValue(x) again,
\* for every raw string x the editor holds.
C20_IdempotentReparse ==
  parseValue(segmentsToString(parseValue(localValue))) = parseValue(localValue)

\* C20 witness: "a$b", a text and a chip, was parsed, serialised and parsed
\* again.
C20_Witness ==
  /\ localValue = <<"a", "$", "b">>
  /\ Len(parseValue(localValue)) = 2
  /\ parseValue(segmentsToString(parseValue(localValue))) =
       << [type |-> "text", content |-> <<"a">>],
          [type |-> "chip", content |-> <<"$", "b">>, transactionId |-> <<"b">>] >>

\* C21: every segment of the raw string is rendered; a chip segment whose
\* transactionId is the id of no option (the list may be empty) is rendered as
\* its literal "$identifier" text, and a chip segment whose id is the id of an
\* option as the Chip of that option.
C21_UnresolvableReferenceFallback ==
  LET segments == parseValue(value)
  IN /\ Len(RenderedSegments) = Len(segments)
     /\ \A k \in 1..Len(segments) :
          segments[k].type = "chip"
          => IF \E j \in 1..Len(options) : options[j] = segments[k].transactionId
             THEN /\ RenderedSegments[k].element = "Chip"
                  /\ RenderedSegments[k].transaction = segments[k].transactionId
             ELSE /\ RenderedSegments[k].element = "span"
                  /\ RenderedSegments[k].children
                       = <<"$">> \o segments[k].transactionId

\* C21 witness: "$a$b+" with b the only option: $a is shown as text, $b as
\* the chip of b.
C21_Witness ==
  /\ value = <<"$", "a", "$", "b", "+">>
  /\ options = << <<"b">> >>
  /\ RenderedSegments[1] = [element |-> "span", children |-> <<"$", "a">>]
  /\ RenderedSegments[2].element = "Chip"
  /\ RenderedSegments[2].transaction = <<"b">>

\* C22: the dropdown flag and the highlighted index are a function of the raw
\* string, the option list and excludeTransactionId: a step that leaves
\* these three as they are leads to a state with the same flag and the same
\* index (both states are reachable and agree on the three).
C22_NoHiddenState ==
  [][ ( /\ localValue' = localValue
        /\ options' = options
        /\ excludeTransactionId' = excludeTransactionId )
      => /\ showDropdown' = showDropdown
         /\ selectedIndex' = selectedIndex ]_vars

\* C22 as amended: the raw string the editor holds is the host's value in
\* every state between two events; the dropdown flag and the highlighted
\* index are left free.
C22_RawStringIsHostValue == localValue = value

\* C22 witness: Escape closed the dropdown that "$" had opened; the raw
\* string is still "$" and still the host's value.
C22_Witness ==
  /\ lastEvent = Event("keydown", "Escape", NoId, TRUE, FALSE)
  /\ localValue = <<"$">>
  /\ value = <<"$">>
  /\ ~showDropdown


\* The identifiers of the references of a raw string, in order.
References(val) ==
  LET chips == SelectSeq(parseValue(val), LAMBDA segment : segment.type = "chip")
  IN [k \in 1..Len(chips) |-> chips[k].transactionId]

\* The step is a selection: a click on an option, or Enter on the highlighted
\* option.
IsSelection(event) ==
  \/ event.type = "click"
  \/ event.type = "keydown" /\ event.key = "Enter" /\ event.target # NoId

\* C24: a selection keeps every reference of the raw string, with the same
\* identifier and in the same order, and adds exactly one reference: the
\* references after the step are those before it with one inserted.
C24_SelectionPreservesReferences ==
  [][ IsSelection(lastEvent')
      => LET before == References(localValue)
             after == References(localValue')
         IN \E k \in 1..Len(after) :
              before = SubSeq(after, 1, k - 1) \o SubSeq(after, k + 1, Len(after))
    ]_vars


\* C25: after the selection of an option in any state in which the dropdown is
\* open, the new raw string has a chip segment whose transactionId is exactly
\* the id of the selected option (the ids are made of the identifier
\* characters only).
C25_SelectedIdAppearsVerbatim ==
  [][ IsSelection(lastEvent')
      => \E k \in 1..Len(References(localValue')) :
           References(localValue')[k] = lastEvent'.target ]_vars


\* The token "$" + id stands somewhere in val.
HasToken(val, id) ==
  \E from \in 0..Len(val) :
    Substring(val, from, from + 1 + Len(id)) = <<"$">> \o id

\* C26: in every state in which the dropdown is open and the presented option
\* list is non-empty, an Enter keydown inserts one of the presented options
\* into the raw string (the string grows by the id and holds "$" + id) and
\* closes the dropdown.
C26_EnterCompletesSelection ==
  [][ ( /\ showDropdown
        /\ Len(filteredOptions) > 0
        /\ lastEvent'.type = "keydown"
        /\ lastEvent'.key = "Enter" )
      => /\ ~showDropdown'
         /\ \E k \in 1..Len(filteredOptions) :
              /\ lastEvent'.target = filteredOptions[k]
              /\ Len(localValue') = Len(localValue) + Len(filteredOptions[k])
              /\ HasToken(localValue', filteredOptions[k]) ]_vars


\* C27: a Backspace keydown with the caret at offset 0 leaves the raw string
\* unchanged and does not invoke onChange, whatever the raw string is.
C27_BackspaceAtStartIsNoOp ==
  [][ ( /\ selectionStart = 0
        /\ lastEvent'.type = "keydown"
        /\ lastEvent'.key = "Backspace" )
      => /\ localValue' = localValue
         /\ onChangeCalls' = <<>> ]_vars


\* The step is a structured edit: a selection, or a Backspace that removed a
\* reference as a whole.
IsStructuredEdit(event) ==
  \/ IsSelection(event)
  \/ event.type = "keydown" /\ event.key = "Backspace" /\ event.defaultPrevented

\* C28: when the cursor update a structured edit deferred runs, the caret is
\* at the offset the edit computed (the removed segment's start, or the offset
\* behind the inserted "$" + id), the recorded cursorPosition is that offset
\* too, and the update follows its edit with no other event in between.
C28_CursorPlacementAfterStructuredEdits ==
  [][ lastEvent'.type = "timeout"
      => /\ selectionStart' = Head(pendingTimers)
         /\ cursorPosition' = Head(pendingTimers)
         /\ IsStructuredEdit(lastEvent) ]_vars


\* C29: isEvaluatingExpression is true exactly while at least one evaluation
\* request is in flight, under any interleaving of edits and responses.
C29_EvaluatingFlagTracksInFlight ==
  isEvaluatingExpression <=> (BagCardinality(inFlight) > 0)


\* C30: whenever Home changes the initialData of the mounted form (handleEdit
\* or handleCreateNew while the form is shown) and the category fetch has
\* settled, with a list, an empty list or a failure, the form's expression,
\* and so the editor's raw string, is initialData.expression in edit mode and
\* the empty string in create mode.
C30_ProgrammaticResetOnModeSwitch ==
  [][ (showForm /\ ~isLoadingCategories /\ lastEvent'.type \in {"edit", "create"})
      => /\ value' = InitialExpression(editingTransactionId')
         /\ localValue' = InitialExpression(editingTransactionId') ]_vars


\* C23: in every state of the form in which the submit button is enabled,
\* description and expression are non-blank, categoryId and frequency are
\* non-empty and no submission is in progress; also between a change of a
\* field and the next run of the debounced validation.
C23_SubmitDisabledWhenInvalid ==
  ~SubmitDisabled
  => /\ Trim(description) # <<>>
     /\ Trim(value) # <<>>
     /\ categoryId # <<>>
     /\ watchedFrequency # ""
     /\ ~isSubmitting

=============================================================================
